---------------------------- MODULE Spec2Model ----------------------------
(***************************************************************************)
(* Cue2ID3.py: a CUE sheet's TRACK/TITLE/INDEX 01 lines are parsed into    *)
(* (title, start_ms) seeds (parse_cue_file), turned into one CTOC frame    *)
(* and one CHAP frame per seed, and written into the MP3's ID3 tag with a  *)
(* backup / restore discipline (embed_chapters); process_files runs both   *)
(* and deletes the backup and the CUE file after success.                  *)
(*                                                                         *)
(* Text is modelled as sequences of one-character strings, so that strip,  *)
(* upper, startswith, split and int work on characters as the Python code  *)
(* does.  The input alphabet has letters, digits, space, colon and the     *)
(* double quote; int() also accepts a sign and underscores, which no input *)
(* of the model uses.                                                      *)
(***************************************************************************)
EXTENDS Integers, Sequences, FiniteSets, TLC

VARIABLES
    cue_blocks,      \* the TRACK blocks the CUE file at cue_path was written from
    cue_file,        \* content of the CUE file: a sequence of lines
    cue_exists,      \* whether a file exists at cue_path
    mp3_file,        \* content of the file at mp3_path
    bak_file,        \* content of the file at mp3_path + ".bak"
    pc,              \* position of the running process_files call
    line_no,         \* parse_cue_file: index of the next line of the file
    chapters,        \* parse_cue_file: chapters
    current_title,   \* parse_cue_file: current_title
    current_time,    \* parse_cue_file: current_time
    tags,            \* embed_chapters: tags, the in-memory ID3 container
    result,          \* what process_files returned in the last finished run
    run,             \* record of the current run, kept for stating properties
    runs             \* number of process_files calls started

vars == << cue_blocks, cue_file, cue_exists, mp3_file, bak_file, pc,
           line_no, chapters, current_title, current_time, tags, result, run, runs >>

parse_vars == << line_no, chapters, current_title, current_time >>
file_vars == << cue_blocks, cue_file, cue_exists, mp3_file, bak_file >>

-----------------------------------------------------------------------------
(* Bounds of the model *)

\* most TRACK blocks in a CUE file of the parser specification
MaxTracks == 3
\* most TRACK blocks in a CUE file of the whole-pipeline specification
MaxCueTracks == 2
\* most process_files calls on the same MP3
MaxRuns == 2
\* largest minutes field of the timecode specification
MaxMinutes == 1
\* most seeds in a chapter list of the embedding specification
MaxChapters == 3

-----------------------------------------------------------------------------
(* Python values *)

\* Python's None, and a value that is not None
None == << >>
Some(x) == << x >>
Get(o) == o[1]

-----------------------------------------------------------------------------
(* str methods used by parse_cue_file, on sequences of characters *)

LowerAlphabet == << "a","b","c","d","e","f","g","h","i","j","k","l","m",
                    "n","o","p","q","r","s","t","u","v","w","x","y","z" >>
UpperAlphabet == << "A","B","C","D","E","F","G","H","I","J","K","L","M",
                    "N","O","P","Q","R","S","T","U","V","W","X","Y","Z" >>
DecimalDigits == << "0","1","2","3","4","5","6","7","8","9" >>

IsSpace(c) == c = " "

\* str.upper() of one character
UpperChar(c) ==
    IF \E i \in 1..26 : LowerAlphabet[i] = c
    THEN UpperAlphabet[CHOOSE i \in 1..26 : LowerAlphabet[i] = c]
    ELSE c

\* str.upper()
Upper(s) == [i \in 1..Len(s) |-> UpperChar(s[i])]

\* str.strip(): leading and trailing whitespace removed
Strip(s) ==
    LET keep == {i \in 1..Len(s) : ~IsSpace(s[i])}
    IN  IF keep = {} THEN << >>
        ELSE LET lo == CHOOSE i \in keep : \A j \in keep : i <= j
                 hi == CHOOSE i \in keep : \A j \in keep : j <= i
             IN  SubSeq(s, lo, hi)

\* str.startswith(prefix)
StartsWith(s, prefix) ==
    /\ Len(prefix) <= Len(s)
    /\ SubSeq(s, 1, Len(prefix)) = prefix

\* sub in s
Contains(s, sub) ==
    \E i \in 1..(Len(s) - Len(sub) + 1) : SubSeq(s, i, i + Len(sub) - 1) = sub

\* str.split(sep) for a one-character sep: empty fields are kept
RECURSIVE SplitOn(_, _)
SplitOn(s, sep) ==
    LET hits == {i \in 1..Len(s) : s[i] = sep}
    IN  IF hits = {} THEN << s >>
        ELSE LET i == CHOOSE k \in hits : \A j \in hits : k <= j
             IN  << SubSeq(s, 1, i - 1) >> \o SplitOn(SubSeq(s, i + 1, Len(s)), sep)

\* str.split(): fields separated by runs of whitespace, no empty field
RECURSIVE SplitWs(_)
SplitWs(s) ==
    LET t == Strip(s)
        gaps == {i \in 1..Len(t) : IsSpace(t[i])}
    IN  IF t = << >> THEN << >>
        ELSE IF gaps = {} THEN << t >>
        ELSE LET i == CHOOSE k \in gaps : \A j \in gaps : k <= j
             IN  << SubSeq(t, 1, i - 1) >> \o SplitWs(SubSeq(t, i + 1, Len(t)))

IsDigit(c) == \E d \in 1..10 : DecimalDigits[d] = c
DigitValue(c) == (CHOOSE d \in 1..10 : DecimalDigits[d] = c) - 1

\* int(s) for a string of decimal digits; None stands for the ValueError
RECURSIVE DigitsValue(_)
DigitsValue(s) ==
    IF s = << >> THEN 0
    ELSE 10 * DigitsValue(SubSeq(s, 1, Len(s) - 1)) + DigitValue(s[Len(s)])

ToInt(s) ==
    IF s # << >> /\ \A i \in 1..Len(s) : IsDigit(s[i])
    THEN Some(DigitsValue(s))
    ELSE None

-----------------------------------------------------------------------------
(* IEEE 754 double arithmetic of  int((m * 60 + s + f / 75.0) * 1000).      *)
(* A non-negative double is held exactly as its integer part and the bits  *)
(* after the binary point, most significant first.                         *)

FramesPerSecond == 75
MsPerSecond == 1000
MantissaBits == 53
\* bits of a quotient computed before rounding: the leading zeros of a
\* fraction of at least 1/75, the mantissa, and the guard bit
ExpandBits == MantissaBits + 8

RECURSIVE BitLen(_)
BitLen(n) == IF n = 0 THEN 0 ELSE 1 + BitLen(n \div 2)

\* 2^i mod 75
RECURSIVE Pow2Mod(_)
Pow2Mod(i) == IF i = 0 THEN 1 ELSE (2 * Pow2Mod(i - 1)) % FramesPerSecond

\* the first n bits of r / 75 after the binary point (r < 75), and the
\* remainder left: long division, whose remainder after i bits is r * 2^i mod 75
DivBits(r, n) ==
    LET rem(i) == (r * Pow2Mod(i)) % FramesPerSecond
    IN  [bits |-> [i \in 1..n |-> IF 2 * rem(i - 1) >= FramesPerSecond THEN 1 ELSE 0],
         rem |-> rem(n)]

\* bits + 1 in the last place, with the carry out of the first place
IncBits(bits) ==
    LET zeros == {i \in 1..Len(bits) : bits[i] = 0}
    IN  IF zeros = {} THEN [bits |-> [i \in 1..Len(bits) |-> 0], carry |-> 1]
        ELSE LET z == CHOOSE i \in zeros : \A j \in zeros : j <= i
             IN  [bits |-> [i \in 1..Len(bits) |->
                              IF i < z THEN bits[i] ELSE IF i = z THEN 1 ELSE 0],
                  carry |-> 0]

\* int + 0.frac rounded to the nearest double, ties to even
Round53(int, frac) ==
    LET ones == {i \in 1..Len(frac) : frac[i] = 1}
        keep == IF int = 0
                THEN IF ones = {} THEN 0
                     ELSE (CHOOSE i \in ones : \A j \in ones : i <= j) + MantissaBits - 1
                ELSE MantissaBits - BitLen(int)
    IN  IF int = 0 /\ ones = {} THEN [int |-> 0, frac |-> << >>]
        ELSE IF keep >= Len(frac) THEN [int |-> int, frac |-> frac]
        ELSE LET kept == SubSeq(frac, 1, keep)
                 guard == frac[keep + 1]
                 sticky == \E i \in (keep + 2)..Len(frac) : frac[i] = 1
                 lsb == IF keep >= 1 THEN kept[keep] ELSE int % 2
                 up == guard = 1 /\ (sticky \/ lsb = 1)
                 inc == IncBits(kept)
             IN  IF up THEN [int |-> int + inc.carry, frac |-> inc.bits]
                 ELSE [int |-> int, frac |-> kept]

\* f / 75.0
FloatDiv75(f) ==
    LET d == DivBits(f % FramesPerSecond, ExpandBits)
        tail == IF d.rem = 0 THEN << >> ELSE << 1 >>
    IN  Round53(f \div FramesPerSecond, d.bits \o tail)

\* n + x for an int n and a double x
FloatAddInt(n, x) == Round53(n + x.int, x.frac)

\* bits of a chunk of the fraction: a chunk times 1000 plus a carry below 1000
\* stays within TLC's 32-bit integers
ChunkBits == 2 * BitLen(MsPerSecond)

\* the number a sequence of bits spells, most significant first
RECURSIVE BitsToInt(_)
BitsToInt(bits) ==
    IF bits = << >> THEN 0
    ELSE 2 * BitsToInt(SubSeq(bits, 1, Len(bits) - 1)) + bits[Len(bits)]

\* the w bits of n < 2^w
IntToBits(n, w) == [i \in 1..w |-> (n \div (2 ^ (w - i))) % 2]

\* the exact product 1000 * 0.frac, chunk by chunk from the last one up: the
\* bits after the binary point, and the carry into the integer part
RECURSIVE MulFrac(_, _)
MulFrac(frac, carry) ==
    IF frac = << >> THEN [bits |-> << >>, carry |-> carry]
    ELSE LET w == IF Len(frac) % ChunkBits = 0 THEN ChunkBits ELSE Len(frac) % ChunkBits
             t == MsPerSecond * BitsToInt(SubSeq(frac, Len(frac) - w + 1, Len(frac))) + carry
             rest == MulFrac(SubSeq(frac, 1, Len(frac) - w), t \div (2 ^ w))
         IN  [bits |-> rest.bits \o IntToBits(t % (2 ^ w), w), carry |-> rest.carry]

\* x * 1000
FloatMul1000(x) ==
    LET p == MulFrac(x.frac, 0)
    IN  Round53(x.int * MsPerSecond + p.carry, p.bits)

\* int(x) of a non-negative double
FloatToInt(x) == x.int

\* int((m * 60 + s + f / 75.0) * 1000)
TimecodeToMs(m, s, f) ==
    FloatToInt(FloatMul1000(FloatAddInt(m * 60 + s, FloatDiv75(f))))

-----------------------------------------------------------------------------
(* CUE sheets: the text of a file written from TRACK block descriptions.   *)
(* A block is [lower, pregap, title, index]: whether its keywords are in   *)
(* lower case, whether an INDEX 00 line precedes INDEX 01, its TITLE line  *)
(* ([style, text]) and its INDEX 01 line ([style, m, s, f]).               *)

Text_TRACK == << "T","R","A","C","K" >>
Text_TITLE == << "T","I","T","L","E" >>
Text_INDEX_01 == << "I","N","D","E","X"," ","0","1" >>
Text_INDEX_00 == << "I","N","D","E","X"," ","0","0" >>
Text_AUDIO == << "A","U","D","I","O" >>
Text_FILE == << "F","I","L","E" >>
Text_MP3 == << "M","P","3" >>
Quote == "\""
Colon == ":"
Space == << " " >>
Indent == << " "," " >>

Lower(s) ==
    [i \in 1..Len(s) |->
        IF \E k \in 1..26 : UpperAlphabet[k] = s[i]
        THEN LowerAlphabet[CHOOSE k \in 1..26 : UpperAlphabet[k] = s[i]]
        ELSE s[i]]

\* the decimal digits of n, at least two of them
RECURSIVE Decimal(_)
Decimal(n) == IF n < 10 THEN << DecimalDigits[n + 1] >>
              ELSE Decimal(n \div 10) \o << DecimalDigits[(n % 10) + 1] >>
TwoDigits(n) == IF n < 10 THEN << "0" >> \o Decimal(n) ELSE Decimal(n)

Keyword(kw, lower) == IF lower THEN Lower(kw) ELSE kw

Timecode(x) == TwoDigits(x.m) \o << Colon >> \o TwoDigits(x.s) \o << Colon >> \o TwoDigits(x.f)

\* the last token of the INDEX 01 line: mm:ss:ff, or one of the malformed shapes
IndexToken(x) ==
    CASE x.style = "ok" -> Timecode(x)
      [] x.style = "short" -> TwoDigits(x.m) \o << Colon >> \o TwoDigits(x.s)
      [] x.style = "long" -> Timecode(x) \o << Colon >> \o TwoDigits(0)
      [] x.style = "alpha" -> TwoDigits(x.m) \o << Colon >> \o TwoDigits(x.s) \o << Colon, "x", "x" >>
      [] x.style = "empty" -> TwoDigits(x.m) \o << Colon, Colon >> \o TwoDigits(x.f)

TrackLine(i, b) ==
    Indent \o Keyword(Text_TRACK, b.lower) \o Space \o TwoDigits(i) \o Space
           \o Keyword(Text_AUDIO, b.lower)

TitleLines(b) ==
    CASE b.title.style = "quoted" ->
            << Indent \o Indent \o Keyword(Text_TITLE, b.lower) \o Space
                      \o << Quote >> \o b.title.text \o << Quote >> >>
      [] b.title.style = "bare" ->
            << Indent \o Indent \o Keyword(Text_TITLE, b.lower) \o Space \o b.title.text >>
      [] b.title.style = "absent" -> << >>

IndexLines(b) ==
    (IF b.pregap
     THEN << Indent \o Indent \o Keyword(Text_INDEX_00, b.lower) \o Space
                    \o Timecode([m |-> 0, s |-> 0, f |-> 0]) >>
     ELSE << >>)
    \o (IF b.index.style = "absent" THEN << >>
        ELSE << Indent \o Indent \o Keyword(Text_INDEX_01, b.lower) \o Space
                       \o IndexToken(b.index) >>)

BlockLines(i, b) == << TrackLine(i, b) >> \o TitleLines(b) \o IndexLines(b)

\* the sheet's header: the album's TITLE and the FILE line
HeaderLines ==
    << Text_TITLE \o Space \o << Quote, "Z", Quote >>,
       Text_FILE \o Space \o << Quote, "a", Quote >> \o Space \o Text_MP3 >>

RECURSIVE BlocksLines(_, _)
BlocksLines(blocks, i) ==
    IF i > Len(blocks) THEN << >>
    ELSE BlockLines(i, blocks[i]) \o BlocksLines(blocks, i + 1)

RenderCue(blocks) == HeaderLines \o BlocksLines(blocks, 1)

\* a block with both a quoted title and a well-formed INDEX 01 timecode
Complete(b) == b.title.style = "quoted" /\ b.index.style = "ok"
\* a block whose INDEX 01 line ends in a token that is no mm:ss:ff timecode
Malformed(b) == b.index.style \in {"short", "long", "alpha", "empty"}

\* the seed a complete block stands for
SeedOf(b) == << b.title.text, TimecodeToMs(b.index.m, b.index.s, b.index.f) >>

RECURSIVE SeedsOf(_)
SeedsOf(blocks) ==
    IF blocks = << >> THEN << >>
    ELSE (IF Complete(Head(blocks)) THEN << SeedOf(Head(blocks)) >> ELSE << >>)
         \o SeedsOf(Tail(blocks))

Title_A == << "A" >>
Title_B == << "B","b"," ","c" >>
Title_C == << "i","n","d","e","x"," ","0","1" >>

QuotedTitle(t) == [style |-> "quoted", text |-> t]
OkIndex(m, s, f) == [style |-> "ok", m |-> m, s |-> s, f |-> f]
BadIndex(style) == [style |-> style, m |-> 0, s |-> 2, f |-> 0]
NoIndex == [style |-> "absent", m |-> 0, s |-> 0, f |-> 0]

\* the TRACK blocks CUE files of the parser specification are made of
BlockKinds ==
    { [lower |-> FALSE, pregap |-> FALSE, title |-> QuotedTitle(Title_A), index |-> OkIndex(0, 0, 0)],
      [lower |-> FALSE, pregap |-> TRUE,  title |-> QuotedTitle(Title_B), index |-> OkIndex(0, 1, 27)],
      [lower |-> TRUE,  pregap |-> FALSE, title |-> QuotedTitle(Title_C), index |-> OkIndex(12, 34, 56)],
      [lower |-> FALSE, pregap |-> FALSE, title |-> QuotedTitle(Title_A), index |-> BadIndex("short")],
      [lower |-> TRUE,  pregap |-> TRUE,  title |-> QuotedTitle(Title_B), index |-> BadIndex("alpha")],
      [lower |-> FALSE, pregap |-> FALSE, title |-> QuotedTitle(Title_B), index |-> BadIndex("empty")],
      [lower |-> FALSE, pregap |-> FALSE, title |-> [style |-> "bare", text |-> Title_A],
       index |-> OkIndex(3, 0, 0)],
      [lower |-> FALSE, pregap |-> FALSE, title |-> [style |-> "absent", text |-> << >>],
       index |-> OkIndex(3, 0, 0)],
      [lower |-> FALSE, pregap |-> TRUE,  title |-> QuotedTitle(Title_A), index |-> NoIndex] }

\* sequences of at most n elements of S
RECURSIVE SeqsUpTo(_, _)
SeqsUpTo(S, n) ==
    IF n = 0 THEN { << >> }
    ELSE LET shorter == SeqsUpTo(S, n - 1)
         IN  shorter \cup { Append(q, x) : q \in { r \in shorter : Len(r) = n - 1 }, x \in S }

-----------------------------------------------------------------------------
(* parse_cue_file *)

\* the line the loop is at, stripped
CurrentLine == Strip(cue_file[line_no])

IsTrackLine(line) == StartsWith(Upper(line), Text_TRACK)
IsTitleLine(line) == StartsWith(Upper(line), Text_TITLE)
IsIndexLine(line) == Contains(Upper(line), Text_INDEX_01)

\* a variant of ParseTime: a token that is no timecode counts as time zero
ParseTimeLenient(line) ==
    LET parts == SplitWs(line)
        time_str == parts[Len(parts)]
        fields == SplitOn(time_str, Colon)
    IN  IF Len(fields) # 3 THEN Some(0)
        ELSE LET m == ToInt(fields[1])
                 s == ToInt(fields[2])
                 f == ToInt(fields[3])
             IN  IF m = None \/ s = None \/ f = None THEN Some(0)
                 ELSE Some(TimecodeToMs(Get(m), Get(s), Get(f)))

\* the try block of the INDEX 01 branch: the new current_time, or None when
\* the block raises
ParseTime(line) ==
    LET parts == SplitWs(line)
        time_str == parts[Len(parts)]
        fields == SplitOn(time_str, Colon)
    IN  IF Len(fields) # 3 THEN None
        ELSE LET m == ToInt(fields[1])
                 s == ToInt(fields[2])
                 f == ToInt(fields[3])
             IN  IF m = None \/ s = None \/ f = None THEN None
                 ELSE Some(TimecodeToMs(Get(m), Get(s), Get(f)))

\* a variant of Flush: the flushed block replaces the list instead of joining it
FlushOverwrite(chs, title, time) ==
    IF title # None /\ time # None
    THEN << << Get(title), Get(time) >> >>
    ELSE chs

\* chapters after a block is flushed
Flush(chs, title, time) ==
    IF title # None /\ time # None
    THEN Append(chs, << Get(title), Get(time) >>)
    ELSE chs

\* the title a TITLE line sets
TitleOf(line, title) ==
    IF \E i \in 1..Len(line) : line[i] = Quote
    THEN Some(SplitOn(line, Quote)[2])
    ELSE title

ReadTrackLine ==
    /\ pc = "parse"
    /\ line_no <= Len(cue_file)
    /\ IsTrackLine(CurrentLine)
    /\ chapters' = Flush(chapters, current_title, current_time)
    /\ current_title' = None
    /\ current_time' = None
    /\ line_no' = line_no + 1
    /\ UNCHANGED << file_vars, pc, tags, result, run, runs >>

ReadTitleLine ==
    /\ pc = "parse"
    /\ line_no <= Len(cue_file)
    /\ ~IsTrackLine(CurrentLine)
    /\ IsTitleLine(CurrentLine)
    /\ current_title' = TitleOf(CurrentLine, current_title)
    /\ line_no' = line_no + 1
    /\ UNCHANGED << file_vars, pc, chapters, current_time, tags, result, run, runs >>

ReadIndexLine ==
    /\ pc = "parse"
    /\ line_no <= Len(cue_file)
    /\ ~IsTrackLine(CurrentLine)
    /\ ~IsTitleLine(CurrentLine)
    /\ IsIndexLine(CurrentLine)
    /\ current_time' = (IF ParseTime(CurrentLine) = None THEN current_time
                        ELSE ParseTime(CurrentLine))
    /\ line_no' = line_no + 1
    /\ UNCHANGED << file_vars, pc, chapters, current_title, tags, result, run, runs >>

ReadOtherLine ==
    /\ pc = "parse"
    /\ line_no <= Len(cue_file)
    /\ ~IsTrackLine(CurrentLine)
    /\ ~IsTitleLine(CurrentLine)
    /\ ~IsIndexLine(CurrentLine)
    /\ line_no' = line_no + 1
    /\ UNCHANGED << file_vars, pc, chapters, current_title, current_time,
                    tags, result, run, runs >>

\* the end of the file: the pending block is flushed and chapters returned
ParseFinish ==
    /\ pc = "parse"
    /\ line_no > Len(cue_file)
    /\ chapters' = Flush(chapters, current_title, current_time)
    /\ pc' = "parsed"
    /\ UNCHANGED << file_vars, line_no, current_title, current_time,
                    tags, result, run, runs >>

ParseNext ==
    \/ ReadTrackLine
    \/ ReadTitleLine
    \/ ReadIndexLine
    \/ ReadOtherLine
    \/ ParseFinish

-----------------------------------------------------------------------------
(* Files.  A file's content is [state, header, frames, length_us]: state   *)
(* "absent" (no file at the path), "intact" (an MP3 with its audio),       *)
(* "damaged" (what a save that failed half-way leaves) or "truncated"      *)
(* (what a copy that failed half-way leaves); header says whether an ID3   *)
(* header is present, frames is the tag's frame set, and length_us the     *)
(* play length in microseconds.  Two files are byte-identical exactly when *)
(* their contents are equal.                                               *)

Absent == [state |-> "absent", header |-> FALSE, frames |-> {}, length_us |-> 0]
Damaged(file) == [state |-> "damaged", header |-> FALSE, frames |-> {}, length_us |-> file.length_us]
Truncated(file) == [state |-> "truncated", header |-> FALSE, frames |-> {}, length_us |-> file.length_us]
Exists(file) == file.state # "absent"

\* the record kept of one process_files call
NewRun(mp3, bak, cue) ==
    [mp3_before |-> mp3, bak_before |-> bak, cue_before |-> cue,
     chapters_found |-> "unknown", embed_called |-> FALSE,
     backup |-> "none", save |-> "none", restore |-> "none",
     total_duration_ms |-> 0, deleted_bak |-> FALSE, deleted_cue |-> FALSE]

-----------------------------------------------------------------------------
(* ID3 frames.  A frame is [FrameID, element_id, start_time, end_time,     *)
(* start_offset, end_offset, text, child_element_ids, flags]; text is the  *)
(* text of the frame's TIT2 (its own text for a TIT2 frame).               *)

ID_CHAP == << "C","H","A","P" >>
ID_CTOC == << "C","T","O","C" >>
ID_TIT2 == << "T","I","T","2" >>
Text_toc == << "t","o","c" >>
Text_chp == << "c","h","p" >>
Text_TocTitle == << "I","'","m"," ","a"," ","T","O","C" >>

\* f"chp{idx+1:02d}"
ElementId(idx) == Text_chp \o TwoDigits(idx + 1)

\* the key a frame is stored under in the tag: "CHAP:<id>", "CTOC:<id>", "TIT2"
HashKey(fr) ==
    IF fr.FrameID \in {ID_CHAP, ID_CTOC}
    THEN fr.FrameID \o << Colon >> \o fr.element_id
    ELSE fr.FrameID

CTOC(element_id, flags, child_element_ids, text) ==
    [FrameID |-> ID_CTOC, element_id |-> element_id, start_time |-> 0, end_time |-> 0,
     start_offset |-> 0, end_offset |-> 0, text |-> text,
     child_element_ids |-> child_element_ids, flags |-> flags]

CHAP(element_id, start_time, end_time, text) ==
    [FrameID |-> ID_CHAP, element_id |-> element_id, start_time |-> start_time,
     end_time |-> end_time, start_offset |-> 0, end_offset |-> 0, text |-> text,
     child_element_ids |-> << >>, flags |-> {}]

TIT2(text) ==
    [FrameID |-> ID_TIT2, element_id |-> << >>, start_time |-> 0, end_time |-> 0,
     start_offset |-> 0, end_offset |-> 0, text |-> text,
     child_element_ids |-> << >>, flags |-> {}]

\* tags.add(frame): the frame is stored under its key, replacing what was there
AddFrame(t, fr) == { g \in t : HashKey(g) # HashKey(fr) } \cup { fr }

\* a variant of RemoveChapterFrames: the old frames are kept
KeepChapterFrames(t) == t

\* the loop deleting the keys that start with "CHAP" or "CTOC"
RemoveChapterFrames(t) ==
    { g \in t : ~(StartsWith(HashKey(g), ID_CHAP) \/ StartsWith(HashKey(g), ID_CTOC)) }

\* int(mp3_info.info.length * 1000)
MicrosPerSecond == MsPerSecond * MsPerSecond
TotalDurationMs(file) == file.length_us \div (MicrosPerSecond \div MsPerSecond)

\* child_ids
ChildIds(chs) == [i \in 1..Len(chs) |-> ElementId(i - 1)]

\* a variant of EndTime: every chapter ends at the end of the track
EndTimeTotal(chs, idx, total_duration_ms) == total_duration_ms

\* end_time of the chapter at idx (0-based)
EndTime(chs, idx, total_duration_ms) ==
    IF idx < Len(chs) - 1 THEN chs[idx + 2][2] ELSE total_duration_ms

\* the CHAP frame of the chapter at idx (0-based)
ChapterFrame(chs, idx, total_duration_ms) ==
    CHAP(ElementId(idx), chs[idx + 1][2], EndTime(chs, idx, total_duration_ms), chs[idx + 1][1])

\* tags after the CHAP frames from idx on are added
RECURSIVE AddChapters(_, _, _, _)
AddChapters(t, chs, idx, total_duration_ms) ==
    IF idx >= Len(chs) THEN t
    ELSE AddChapters(AddFrame(t, ChapterFrame(chs, idx, total_duration_ms)),
                     chs, idx + 1, total_duration_ms)

\* tags after the CTOC frame and the CHAP frames are added
WithChapters(t, chs, total_duration_ms) ==
    AddChapters(AddFrame(t, CTOC(Text_toc, {"TOP_LEVEL", "ORDERED"}, ChildIds(chs), Text_TocTitle)),
                chs, 0, total_duration_ms)

ChapFrames(t) == { g \in t : g.FrameID = ID_CHAP }
CtocFrames(t) == { g \in t : g.FrameID = ID_CTOC }

-----------------------------------------------------------------------------
(* embed_chapters *)

\* how reading the file at mp3_path as an MP3 can end: an intact file reads,
\* a missing one raises, one that is no longer an MP3 may do either
ReadOutcomes(file) ==
    CASE file.state = "intact" -> {"ok"}
      [] file.state = "absent" -> {"raise"}
      [] OTHER -> {"ok", "raise"}

\* tags = ID3(mp3_path), or ID3() on ID3NoHeaderError; then the old CHAP and
\* CTOC frames are deleted
OpenTags ==
    /\ pc = "embed"
    /\ \E outcome \in ReadOutcomes(mp3_file) :
          IF outcome = "ok"
          THEN /\ tags' = RemoveChapterFrames(IF mp3_file.header THEN mp3_file.frames ELSE {})
               /\ pc' = "probe"
          ELSE /\ tags' = tags
               /\ pc' = "raised"
    /\ UNCHANGED << file_vars, parse_vars, result, run, runs >>

\* MP3(mp3_path) gives the duration; the CTOC and CHAP frames are added
BuildFrames ==
    /\ pc = "probe"
    /\ \E outcome \in ReadOutcomes(mp3_file) :
          IF outcome = "ok"
          THEN /\ tags' = WithChapters(tags, chapters, TotalDurationMs(mp3_file))
               /\ run' = [run EXCEPT !.total_duration_ms = TotalDurationMs(mp3_file)]
               /\ pc' = "backup"
          ELSE /\ tags' = tags
               /\ run' = run
               /\ pc' = "raised"
    /\ UNCHANGED << file_vars, parse_vars, result, runs >>

\* how copying the MP3 to backup_file can end: the copy is written; nothing
\* is created (an open fails); the file is created and the copy stops short
BackupOutcomes == {"ok", "fail_none", "fail_partial"}

\* a variant of CreateBackup: the copy is made whether or not backup_file exists
CreateBackupAlways ==
    /\ pc = "backup"
    /\ \E outcome \in BackupOutcomes :
          /\ bak_file' = CASE outcome = "ok" -> mp3_file
                           [] outcome = "fail_none" -> bak_file
                           [] outcome = "fail_partial" -> Truncated(mp3_file)
          /\ run' = [run EXCEPT !.backup = IF outcome = "ok" THEN "ok" ELSE "failed"]
    /\ pc' = "save"
    /\ UNCHANGED << cue_blocks, cue_file, cue_exists, mp3_file, parse_vars, tags, result, runs >>

\* the backup step: skipped when backup_file exists; a failure is printed
\* and embed_chapters goes on
CreateBackup ==
    /\ pc = "backup"
    /\ IF Exists(bak_file)
       THEN /\ bak_file' = bak_file
            /\ run' = [run EXCEPT !.backup = "skipped"]
       ELSE \E outcome \in BackupOutcomes :
              /\ bak_file' = CASE outcome = "ok" -> mp3_file
                               [] outcome = "fail_none" -> bak_file
                               [] outcome = "fail_partial" -> Truncated(mp3_file)
              /\ run' = [run EXCEPT !.backup = IF outcome = "ok" THEN "ok" ELSE "failed"]
    /\ pc' = "save"
    /\ UNCHANGED << cue_blocks, cue_file, cue_exists, mp3_file, parse_vars, tags, result, runs >>

\* how tags.save can end: the tag is written; it raises and the file is as
\* it was; it raises and the file is left half-written
SaveOutcomes == {"ok", "fail_clean", "fail_damaged"}

\* tags.save(mp3_path, v2_version=4)
SaveTags ==
    /\ pc = "save"
    /\ \E outcome \in SaveOutcomes :
          /\ mp3_file' = CASE outcome = "ok" -> [mp3_file EXCEPT !.header = TRUE, !.frames = tags]
                           [] outcome = "fail_clean" -> mp3_file
                           [] outcome = "fail_damaged" -> Damaged(mp3_file)
          /\ run' = [run EXCEPT !.save = IF outcome = "ok" THEN "ok" ELSE "failed"]
          /\ pc' = IF outcome = "ok" THEN "saved" ELSE "restore"
    /\ UNCHANGED << cue_blocks, cue_file, cue_exists, bak_file, parse_vars, tags, result, runs >>

\* how copying backup_file over the MP3 can end: the copy is written; the
\* backup cannot be opened and the MP3 is not touched; the MP3 is opened for
\* writing and the copy stops short
RestoreOutcomes(bak) ==
    IF Exists(bak) THEN {"ok", "fail_open", "fail_write"} ELSE {"fail_open"}

\* the except branch of the save: restore from the backup, then raise save_err
RestoreBackup ==
    /\ pc = "restore"
    /\ \E outcome \in RestoreOutcomes(bak_file) :
          /\ mp3_file' = CASE outcome = "ok" -> bak_file
                           [] outcome = "fail_open" -> mp3_file
                           [] outcome = "fail_write" -> Truncated(bak_file)
          /\ run' = [run EXCEPT !.restore = CASE outcome = "ok" -> "ok"
                                              [] Exists(bak_file) -> "failed"
                                              [] OTHER -> "no_backup"]
    /\ pc' = "raised"
    /\ UNCHANGED << cue_blocks, cue_file, cue_exists, bak_file, parse_vars, tags, result, runs >>

EmbedNext ==
    \/ OpenTags
    \/ BuildFrames
    \/ CreateBackup
    \/ SaveTags
    \/ RestoreBackup

-----------------------------------------------------------------------------
(* process_files (the second definition, which is the one the module ends  *)
(* up with)                                                                *)

\* the block the i-th TRACK of a CUE sheet of the pipeline specification has
PipelineBlock(i) ==
    [lower |-> FALSE, pregap |-> FALSE,
     title |-> QuotedTitle(IF i % 2 = 1 THEN Title_A ELSE Title_B),
     index |-> CASE i = 1 -> OkIndex(0, 0, 0)
                 [] i = 2 -> OkIndex(0, 1, 27)
                 [] OTHER -> OkIndex(3 * (i - 2), 0, 0)]

\* the CUE sheets of the pipeline specification: n complete blocks, for each
\* n up to MaxCueTracks, and a sheet whose only block has a malformed timecode
PipelineCues ==
    { [i \in 1..n |-> PipelineBlock(i)] : n \in 0..MaxCueTracks }
    \cup { << [PipelineBlock(1) EXCEPT !.index = BadIndex("short")] >> }

\* the user starts process_files(cue_path, mp3_path); before that a CUE sheet
\* may have been put at cue_path
StartRun ==
    /\ pc = "idle"
    /\ runs < MaxRuns
    /\ \E put \in BOOLEAN, blocks \in PipelineCues :
          /\ put \/ blocks = cue_blocks
          /\ cue_blocks' = blocks
          /\ cue_file' = IF put THEN RenderCue(blocks) ELSE cue_file
          /\ cue_exists' = (put \/ cue_exists)
          /\ run' = NewRun(mp3_file, bak_file, put \/ cue_exists)
    /\ runs' = runs + 1
    /\ pc' = "open_cue"
    /\ UNCHANGED << mp3_file, bak_file, parse_vars, tags, result >>

\* parse_cue_file opens the CUE file; a missing file raises
OpenCue ==
    /\ pc = "open_cue"
    /\ pc' = IF cue_exists THEN "parse" ELSE "raised"
    /\ line_no' = 1
    /\ chapters' = << >>
    /\ current_title' = None
    /\ current_time' = None
    /\ UNCHANGED << file_vars, tags, result, run, runs >>

\* a variant of CheckChapters: an empty list is passed on to embed_chapters
CheckChaptersLenient ==
    /\ pc = "parsed"
    /\ pc' = "embed"
    /\ run' = [run EXCEPT !.chapters_found = IF chapters = << >> THEN "none" ELSE "some",
                          !.embed_called = TRUE]
    /\ UNCHANGED << file_vars, parse_vars, tags, result, runs >>

\* if not chapters: raise ValueError; else embed_chapters is called
CheckChapters ==
    /\ pc = "parsed"
    /\ pc' = IF chapters = << >> THEN "raised" ELSE "embed"
    /\ run' = [run EXCEPT !.chapters_found = IF chapters = << >> THEN "none" ELSE "some",
                          !.embed_called = (chapters # << >>)]
    /\ UNCHANGED << file_vars, parse_vars, tags, result, runs >>

\* how os.remove can end
RemoveOutcomes == {"ok", "raise"}

\* embed_chapters has returned backup_file: it is removed if it exists
DeleteBackup ==
    /\ pc = "saved"
    /\ IF Exists(bak_file)
       THEN \E outcome \in RemoveOutcomes :
              /\ bak_file' = IF outcome = "ok" THEN Absent ELSE bak_file
              /\ run' = [run EXCEPT !.deleted_bak = (outcome = "ok")]
              /\ pc' = IF outcome = "ok" THEN "delete_cue" ELSE "raised"
       ELSE /\ bak_file' = bak_file
            /\ run' = run
            /\ pc' = "delete_cue"
    /\ UNCHANGED << cue_blocks, cue_file, cue_exists, mp3_file, parse_vars, tags, result, runs >>

\* the CUE file is removed if it exists
DeleteCue ==
    /\ pc = "delete_cue"
    /\ IF cue_exists
       THEN \E outcome \in RemoveOutcomes :
              /\ cue_exists' = (outcome # "ok")
              /\ run' = [run EXCEPT !.deleted_cue = (outcome = "ok")]
              /\ pc' = IF outcome = "ok" THEN "return" ELSE "raised"
       ELSE /\ cue_exists' = cue_exists
            /\ run' = run
            /\ pc' = "return"
    /\ UNCHANGED << cue_blocks, cue_file, mp3_file, bak_file, parse_vars, tags, result, runs >>

\* return True
ReturnTrue ==
    /\ pc = "return"
    /\ result' = TRUE
    /\ pc' = "idle"
    /\ UNCHANGED << file_vars, parse_vars, tags, run, runs >>

\* except Exception: return False
ReturnFalse ==
    /\ pc = "raised"
    /\ result' = FALSE
    /\ pc' = "idle"
    /\ UNCHANGED << file_vars, parse_vars, tags, run, runs >>

Next ==
    \/ StartRun
    \/ OpenCue
    \/ ReadTrackLine
    \/ ReadTitleLine
    \/ ReadIndexLine
    \/ ReadOtherLine
    \/ ParseFinish
    \/ CheckChapters
    \/ OpenTags
    \/ BuildFrames
    \/ CreateBackup
    \/ SaveTags
    \/ RestoreBackup
    \/ DeleteBackup
    \/ DeleteCue
    \/ ReturnTrue
    \/ ReturnFalse

-----------------------------------------------------------------------------
(* The MP3 files a run can find *)

\* play lengths in microseconds: 200000.5 ms and 1000.999 ms
LongLengthUs == 200 * MicrosPerSecond + 500
ShortLengthUs == MicrosPerSecond + 999

Mp3(header, frames, length_us) ==
    [state |-> "intact", header |-> header, frames |-> frames, length_us |-> length_us]

\* the seeds of n chapters one minute apart
MinuteSeeds(n) == [i \in 1..n |-> << Title_A, (i - 1) * 60 * MsPerSecond >>]

\* frames another tagger left: a table of contents and a chapter under its own ids
ForeignFrames ==
    { CTOC(<< "T","O","C" >>, {"TOP_LEVEL"}, << << "c","h","1" >> >>, Title_B),
      CHAP(<< "c","h","1" >>, 0, MsPerSecond, Title_B),
      CHAP(ElementId(0) \o << "x" >>, 0, MsPerSecond, Title_B) }

InitialMp3s ==
    { Mp3(FALSE, {}, LongLengthUs),
      Mp3(TRUE, { TIT2(Title_A) }, ShortLengthUs),
      Mp3(TRUE, WithChapters({ TIT2(Title_A) }, MinuteSeeds(MaxCueTracks + 1),
                             TotalDurationMs(Mp3(TRUE, {}, LongLengthUs))), LongLengthUs),
      Mp3(TRUE, ForeignFrames \cup { TIT2(Title_B) }, LongLengthUs) }

-----------------------------------------------------------------------------
(* The whole pipeline: process_files called up to MaxRuns times on the same *)
(* MP3, each time with one of the CUE sheets of PipelineCues or with the    *)
(* CUE file as the last run left it                                         *)

Init ==
    /\ cue_blocks = << >>
    /\ cue_file = << >>
    /\ cue_exists = FALSE
    /\ mp3_file \in InitialMp3s
    /\ bak_file = Absent
    /\ pc = "idle"
    /\ line_no = 1
    /\ chapters = << >>
    /\ current_title = None
    /\ current_time = None
    /\ tags = {}
    /\ result = FALSE
    /\ run = NewRun(mp3_file, bak_file, cue_exists)
    /\ runs = 0

Spec == Init /\ [][Next]_vars

-----------------------------------------------------------------------------
(* parse_cue_file alone, on every CUE sheet of up to MaxTracks blocks *)

InitParse ==
    /\ cue_blocks \in SeqsUpTo(BlockKinds, MaxTracks)
    /\ cue_file = RenderCue(cue_blocks)
    /\ cue_exists = TRUE
    /\ mp3_file = Mp3(FALSE, {}, LongLengthUs)
    /\ bak_file = Absent
    /\ pc = "parse"
    /\ line_no = 1
    /\ chapters = << >>
    /\ current_title = None
    /\ current_time = None
    /\ tags = {}
    /\ result = FALSE
    /\ run = NewRun(mp3_file, bak_file, cue_exists)
    /\ runs = 1

SpecParse == InitParse /\ [][ParseNext]_vars

-----------------------------------------------------------------------------
(* parse_cue_file on sheets of one block, over the timecodes *)

\* the seconds fields of the timecode specification
TimeSeconds == {0, 1, 8, 59}

TimeBlock(m, s, f) ==
    [lower |-> FALSE, pregap |-> FALSE, title |-> QuotedTitle(Title_A), index |-> OkIndex(m, s, f)]

InitTime ==
    /\ \E m \in 0..MaxMinutes, s \in TimeSeconds, f \in 0..(FramesPerSecond - 1) :
          cue_blocks = << TimeBlock(m, s, f) >>
    /\ cue_file = RenderCue(cue_blocks)
    /\ cue_exists = TRUE
    /\ mp3_file = Mp3(FALSE, {}, LongLengthUs)
    /\ bak_file = Absent
    /\ pc = "parse"
    /\ line_no = 1
    /\ chapters = << >>
    /\ current_title = None
    /\ current_time = None
    /\ tags = {}
    /\ result = FALSE
    /\ run = NewRun(mp3_file, bak_file, cue_exists)
    /\ runs = 1

SpecTime == InitTime /\ [][ParseNext]_vars

-----------------------------------------------------------------------------
(* embed_chapters alone, on every seed sequence of up to MaxChapters seeds *)

EmbedSeeds ==
    { << Title_A, 0 >>, << Title_B, TimecodeToMs(0, 1, 27) >>,
      << Title_A, 3 * 60 * MsPerSecond >>, << Title_C, TimecodeToMs(12, 34, 56) >> }

InitEmbed ==
    /\ cue_blocks = << >>
    /\ cue_file = << >>
    /\ cue_exists = FALSE
    /\ mp3_file \in InitialMp3s
    /\ bak_file \in {Absent, Mp3(FALSE, {}, ShortLengthUs)}
    /\ pc = "embed"
    /\ line_no = 1
    /\ chapters \in (SeqsUpTo(EmbedSeeds, MaxChapters) \ { << >> })
    /\ current_title = None
    /\ current_time = None
    /\ tags = {}
    /\ result = FALSE
    /\ run = [NewRun(mp3_file, bak_file, cue_exists) EXCEPT
                 !.chapters_found = "some", !.embed_called = TRUE]
    /\ runs = 1

SpecEmbed == InitEmbed /\ [][EmbedNext]_vars

-----------------------------------------------------------------------------
(* Properties *)

\* the steps of embed_chapters, and those after the frames are built
EmbedSteps == {"embed", "probe", "backup", "save", "restore"}
BuiltSteps == {"backup", "save", "saved", "restore"}

Returned == pc = "idle" /\ runs > 0

AllComplete(blocks) == \A i \in 1..Len(blocks) : Complete(blocks[i])
SomeMalformed(blocks) == \E i \in 1..Len(blocks) : Malformed(blocks[i])
NonDecreasing(chs) == \A i \in 1..(Len(chs) - 1) : chs[i][2] <= chs[i + 1][2]

\* (mm*60 + ss)*1000 plus the integer nearest to ff*1000/75
NearestMs(x) ==
    (x.m * 60 + x.s) * MsPerSecond
    + (2 * x.f * MsPerSecond + FramesPerSecond) \div (2 * FramesPerSecond)

\* C1: when tags.save has failed, process_files returns with the MP3 as it
\* was before the run, the backup file present, the result False and the CUE
\* file not deleted.  Runs in which the copy back from an existing backup
\* file itself meets a filesystem error are left out, so that what is stated
\* is about the backup and save steps only.
C1_RollbackOnSaveFailure ==
    (Returned /\ run.save = "failed" /\ run.restore # "failed") =>
        /\ mp3_file = run.mp3_before
        /\ Exists(bak_file)
        /\ result = FALSE
        /\ ~run.deleted_cue
        /\ cue_exists = run.cue_before

\* C2: the backup and the CUE file are deleted only in a run whose tags.save
\* has succeeded, and in no run whose backup step failed.
C2_DeleteOnlyAfterSuccess ==
    (run.deleted_bak \/ run.deleted_cue) =>
        (run.save = "ok" /\ run.backup # "failed")

\* C3: a CUE sheet of N blocks, each with a quoted title and a well-formed
\* INDEX 01 timecode, parses to exactly N seeds, the i-th with the title and
\* the start time of the i-th block.
C3_SeedsInFileOrder ==
    (pc = "parsed" /\ AllComplete(cue_blocks)) =>
        /\ Len(chapters) = Len(cue_blocks)
        /\ \A i \in 1..Len(cue_blocks) :
              chapters[i] = << cue_blocks[i].title.text,
                               TimecodeToMs(cue_blocks[i].index.m, cue_blocks[i].index.s,
                                            cue_blocks[i].index.f) >>

C3_Witness ==
    /\ pc = "parsed"
    /\ Len(cue_blocks) = MaxTracks
    /\ AllComplete(cue_blocks)
    /\ Len(chapters) = MaxTracks
    /\ chapters[1] # chapters[2]

\* C4: the start offset stored for the timecode mm:ss:ff is
\* (mm*60 + ss + ff/75) * 1000 rounded to the nearest integer.
C4_NearestMillisecond ==
    pc = "parsed" => chapters = << << Title_A, NearestMs(cue_blocks[1].index) >> >>

\* C5: for a non-empty seed list with non-decreasing starts and a total
\* duration not before the last start, the CHAP frames built are contiguous:
\* frame i starts at seed i's start and ends where frame i+1 starts, and the
\* last frame ends at the total duration.
C5_ChaptersContiguous ==
    (/\ pc \in BuiltSteps
     /\ chapters # << >>
     /\ NonDecreasing(chapters)
     /\ TotalDurationMs(run.mp3_before) >= chapters[Len(chapters)][2]) =>
        \A i \in 1..Len(chapters) :
            \E g \in ChapFrames(tags) :
                /\ g.element_id = ElementId(i - 1)
                /\ g.start_time = chapters[i][2]
                /\ i < Len(chapters) =>
                      \E h \in ChapFrames(tags) :
                          h.element_id = ElementId(i) /\ g.end_time = h.start_time
                /\ i = Len(chapters) => g.end_time = TotalDurationMs(run.mp3_before)

C5_Witness ==
    /\ pc = "saved"
    /\ Len(chapters) = MaxChapters
    /\ NonDecreasing(chapters)
    /\ chapters[1][2] < chapters[2][2]
    /\ TotalDurationMs(run.mp3_before) > chapters[Len(chapters)][2]
    /\ Cardinality(ChapFrames(mp3_file.frames)) = MaxChapters

\* C6: whatever chapter and table-of-contents frames the tag held, the tag
\* built from N seeds, and the file once saved, hold exactly N CHAP frames and
\* exactly one CTOC frame, in every run.
C6_FramesReplaced ==
    /\ pc \in BuiltSteps =>
          /\ Cardinality(ChapFrames(tags)) = Len(chapters)
          /\ Cardinality(CtocFrames(tags)) = 1
    /\ run.save = "ok" =>
          /\ mp3_file.header
          /\ Cardinality(ChapFrames(mp3_file.frames)) = Len(chapters)
          /\ Cardinality(CtocFrames(mp3_file.frames)) = 1

C6_Witness ==
    /\ runs = MaxRuns
    /\ pc = "saved"
    /\ run.mp3_before.header
    /\ Cardinality(ChapFrames(run.mp3_before.frames)) > Len(chapters)
    /\ Cardinality(ChapFrames(mp3_file.frames)) = Len(chapters)

\* C7: a step of embed_chapters changes the backup file only when it is the
\* backup step and no backup file exists; the copy it then makes is the MP3
\* as it was before saving; and a backup file that exists is left as it is by
\* every step of embed_chapters.
C7_BackupWrittenOnce ==
    [][ /\ (pc \in EmbedSteps /\ bak_file' # bak_file) =>
              (pc = "backup" /\ ~Exists(bak_file))
        /\ (pc = "backup" /\ run'.backup = "ok") =>
              (bak_file' = mp3_file /\ bak_file' = run.mp3_before /\ mp3_file' = mp3_file)
        /\ (pc \in EmbedSteps /\ Exists(bak_file)) => bak_file' = bak_file ]_vars

C7_Witness ==
    /\ runs = MaxRuns
    /\ pc = "save"
    /\ run.backup = "skipped"
    /\ bak_file.state = "intact"
    /\ bak_file # mp3_file

\* C8: when parse_cue_file returns no seed, embed_chapters is not called, the
\* MP3 and the backup path are as before the run, the CUE file is still
\* there, and process_files returns False.
C8_EmptyParseIsError ==
    run.chapters_found = "none" =>
        /\ pc \in {"raised", "idle"}
        /\ ~run.embed_called
        /\ mp3_file = run.mp3_before
        /\ bak_file = run.bak_before
        /\ ~run.deleted_cue
        /\ cue_exists
        /\ pc = "idle" => result = FALSE

C8_Witness ==
    /\ Returned
    /\ run.chapters_found = "none"
    /\ Len(cue_blocks) > 0
    /\ result = FALSE

\* C9: when the copy of the MP3 to the backup file has failed, process_files
\* returns False.
C9_BackupFailureFails ==
    (Returned /\ run.backup = "failed") => result = FALSE

\* C10: a block whose INDEX 01 token is no mm:ss:ff timecode gives no seed,
\* and the seeds returned are those of the complete blocks, in file order.
C10_MalformedBlockDropped ==
    (pc = "parsed" /\ SomeMalformed(cue_blocks)) =>
        chapters = SeedsOf(cue_blocks)

C10_Witness ==
    /\ pc = "parsed"
    /\ Len(cue_blocks) = 3
    /\ Complete(cue_blocks[1])
    /\ Malformed(cue_blocks[2])
    /\ Complete(cue_blocks[3])
    /\ chapters = << SeedOf(cue_blocks[1]), SeedOf(cue_blocks[3]) >>

=============================================================================
